---------------------------- MODULE Spec2Model ----------------------------
(***************************************************************************)
(* Model of src/streamlit_app.py: the quartile -> tier classification      *)
(* rule (map_quartil_to_level, classify_journal), the cached loader        *)
(* (load_data) and the script body that Streamlit re-runs on every widget  *)
(* interaction (sidebar filters, search, manual classifier).               *)
(*                                                                         *)
(* Python values are records [kind, val]: None, the float NaN that pandas  *)
(* uses for a missing cell, an integer (val = its decimal text) and a str  *)
(* (val = its characters, one per element).  The column name               *)
(* 'Classificação' is written "Classificacao".                             *)
(***************************************************************************)
EXTENDS Integers, Sequences, FiniteSets, TLC

VARIABLES
    call,       \* SpecFn: the pending call of a pure function and its arguments
    ret,        \* SpecFn: what the call returned (Pending before it returns)
    source,     \* the workbook on disk: its columns and its rows of raw cells
    cache,      \* st.cache_data's entry for load_data(): NoEntry or a table
    df,         \* the script's df (line 89)
    first,      \* history: the table the first load_data() call returned
    jcr_sel,    \* the sidebar's 'Quartil JCR' selection (lines 110-114)
    sjr_sel,    \* the sidebar's 'Quartil SJR' selection (lines 116-120)
    df_filt,    \* the filtered table (lines 137-149)
    df_view,    \* the table after the search box (lines 165-174)
    classe,     \* the manual classifier's output (line 234), Unset when not shown
    pc          \* where the script run is: "start", "loaded" (load_data() ran
                \* its body), "loaded_cached" (it was served from the cache),
                \* "filtered", "viewed", "done", or "crashed"

vars == <<call, ret, source, cache, df, first, jcr_sel, sjr_sel,
          df_filt, df_view, classe, pc>>

appVars == <<source, cache, df, first, jcr_sel, sjr_sel,
             df_filt, df_view, classe, pc>>

(***************************************************************************)
(* Bounds.                                                                 *)
(***************************************************************************)
MaxLen == 4     \* longest string handed to map_quartil_to_level on its own
MaxPad == 1     \* most spaces on either side of a token given to classify_journal
MaxRows == 2    \* most rows in the workbook

(***************************************************************************)
(* Python values.                                                          *)
(***************************************************************************)
None == [kind |-> "None", val |-> <<>>]
NaN == [kind |-> "nan", val |-> <<>>]
Str(s) == [kind |-> "str", val |-> s]
PyInt(digits) == [kind |-> "int", val |-> digits]
Pending == [kind |-> "pending", val |-> <<>>]   \* no value yet
Unset == [kind |-> "unset", val |-> <<>>]       \* a name the run has not bound

\* str(q): 'None', 'nan', the decimal text of an integer, a str itself.
PyStr(q) ==
    CASE q.kind = "None" -> <<"N", "o", "n", "e">>
      [] q.kind = "nan" -> <<"n", "a", "n">>
      [] OTHER -> q.val

Whitespace == {" "}

\* str.upper(), character by character.
UpperChar(c) ==
    CASE c = "q" -> "Q"
      [] c = "n" -> "N"
      [] c = "a" -> "A"
      [] c = "b" -> "B"
      [] c = "c" -> "C"
      [] c = "o" -> "O"
      [] c = "e" -> "E"
      [] OTHER -> c

Upper(s) == [i \in 1..Len(s) |-> UpperChar(s[i])]

\* str.lower(), character by character.
LowerChar(c) ==
    CASE c = "Q" -> "q"
      [] c = "N" -> "n"
      [] c = "A" -> "a"
      [] c = "B" -> "b"
      [] c = "C" -> "c"
      [] OTHER -> c

Lower(s) == [i \in 1..Len(s) |-> LowerChar(s[i])]

\* str.strip(): drop the leading and the trailing whitespace.
Strip(s) ==
    LET keep == {i \in 1..Len(s) : s[i] \notin Whitespace}
    IN  IF keep = {} THEN <<>>
        ELSE LET lo == CHOOSE i \in keep : \A j \in keep : i <= j
                 hi == CHOOSE i \in keep : \A j \in keep : j <= i
             IN  SubSeq(s, lo, hi)

(***************************************************************************)
(* 1. Classification rules.                                                *)
(***************************************************************************)
MB == Str(<<"M", "B">>)
B == Str(<<"B">>)
R == Str(<<"R">>)
F == Str(<<"F">>)
SEM_CLASSIFICACAO_JCR_SJR ==
    Str(<<"S", "E", "M", "_", "C", "L", "A", "S", "S", "I", "F", "I", "C", "A",
          "C", "A", "O", "_", "J", "C", "R", "_", "S", "J", "R">>)

\* A plausible slip: only the left side is stripped and case is kept.
map_quartil_to_level_lstrip(q) ==
    IF q = None THEN None
    ELSE LET t == PyStr(q)
             keep == {i \in 1..Len(t) : t[i] \notin Whitespace}
             s == IF keep = {} THEN <<>>
                  ELSE SubSeq(t, CHOOSE i \in keep : \A j \in keep : i <= j, Len(t))
         IN  CASE s = <<"Q", "1">> -> MB
               [] s = <<"Q", "2">> -> B
               [] s = <<"Q", "3">> -> R
               [] s = <<"Q", "4">> -> F
               [] OTHER -> None

map_quartil_to_level(q) ==
    IF q = None THEN None
    ELSE LET s == Upper(Strip(PyStr(q)))
         IN  CASE s = <<"Q", "1">> -> MB
               [] s = <<"Q", "2">> -> B
               [] s = <<"Q", "3">> -> R
               [] s = <<"Q", "4">> -> F
               [] OTHER -> None

ordem == <<MB, B, R, F>>

\* A plausible slip: the JCR level wins whenever there is one.
classify_journal_jcr_first(jcr_quartil, sjr_quartil) ==
    LET jcr_level == map_quartil_to_level(jcr_quartil)
        sjr_level == map_quartil_to_level(sjr_quartil)
    IN  IF jcr_level # None THEN jcr_level
        ELSE IF sjr_level # None THEN sjr_level
        ELSE SEM_CLASSIFICACAO_JCR_SJR

\* A plausible slip: the final return is missing, so Python returns None.
classify_journal_no_default(jcr_quartil, sjr_quartil) ==
    LET jcr_level == map_quartil_to_level(jcr_quartil)
        sjr_level == map_quartil_to_level(sjr_quartil)
        hits == {i \in 1..Len(ordem) : jcr_level = ordem[i] \/ sjr_level = ordem[i]}
    IN  IF hits = {} THEN None
        ELSE ordem[CHOOSE i \in hits : \A j \in hits : i <= j]

classify_journal(jcr_quartil, sjr_quartil) ==
    LET jcr_level == map_quartil_to_level(jcr_quartil)
        sjr_level == map_quartil_to_level(sjr_quartil)
        hits == {i \in 1..Len(ordem) : jcr_level = ordem[i] \/ sjr_level = ordem[i]}
    IN  IF hits = {} THEN SEM_CLASSIFICACAO_JCR_SJR
        ELSE ordem[CHOOSE i \in hits : \A j \in hits : i <= j]

(***************************************************************************)
(* SpecFn: the two pure functions, called on their own.                    *)
(***************************************************************************)
Chars == {"Q", "q", "1", "2", "3", "4", "5", " ", "-"}
Strings == UNION {[1..k -> Chars] : k \in 0..MaxLen}

\* Everything map_quartil_to_level is tried on.
RawInputs ==
    {None, NaN, PyInt(<<"1">>), PyInt(<<"4">>)} \cup {Str(s) : s \in Strings}

Spaces(n) == [i \in 1..n |-> " "]
Tokens ==
    {<<c, d>> : c \in {"Q", "q"}, d \in {"1", "2", "3", "4", "5"}}
        \cup {<<>>, <<"-">>, <<"Q">>, <<"Q", " ", "1">>, <<"n", "a", "n">>}

\* Everything classify_journal is tried on, in each argument.
QuartileInputs ==
    {None, NaN}
        \cup {Str(Spaces(l) \o t \o Spaces(r)) : l \in 0..MaxPad, r \in 0..MaxPad, t \in Tokens}

Calls ==
    {[fn |-> "map_quartil_to_level", args |-> <<q>>] : q \in RawInputs}
        \cup {[fn |-> "classify_journal", args |-> <<a, b>>] :
                a \in QuartileInputs, b \in QuartileInputs}
NoCall == [fn |-> "none", args |-> <<>>]

ReturnMap ==
    /\ call.fn = "map_quartil_to_level"
    /\ ret = Pending
    /\ ret' = map_quartil_to_level(call.args[1])
    /\ UNCHANGED <<call, appVars>>

ReturnClassify ==
    /\ call.fn = "classify_journal"
    /\ ret = Pending
    /\ ret' = classify_journal(call.args[1], call.args[2])
    /\ UNCHANGED <<call, appVars>>

(***************************************************************************)
(* 2. The workbook and pandas tables.  A table is its set of columns and   *)
(* its rows in order; a row maps each column to a cell.                    *)
(***************************************************************************)
Blank == [kind |-> "blank", val |-> <<>>]       \* an empty workbook cell
NoEntry == [cols |-> {"<no entry>"}, rows |-> <<>>]
NoTable == [cols |-> {"<unbound>"}, rows |-> <<>>]

\* pd.read_excel gives NaN for an empty cell and the cell's text otherwise
\* (none of the modelled texts is one of its NA spellings).
ReadCell(c) == IF c = Blank THEN NaN ELSE c

\* pd.read_excel("JCR_SCImago_integrado_classificado.xlsx")
read_excel(src) ==
    [cols |-> src.cols,
     rows |-> [i \in 1..Len(src.rows) |->
                 [c \in src.cols |-> ReadCell(src.rows[i][c])]]]

\* row.get(col): the cell, or None when the row has no such column.
RowGet(row, col) == IF col \in DOMAIN row THEN row[col] ELSE None

\* df[col] = values
SetColumn(t, col, values) ==
    [cols |-> t.cols \cup {col},
     rows |-> [i \in 1..Len(t.rows) |->
                 [c \in t.cols \cup {col} |->
                    IF c = col THEN values[i] ELSE t.rows[i][c]]]]

\* A plausible slip: the column is recomputed even when the workbook has it.
load_data_body_recompute(src) ==
    LET t == read_excel(src)
    IN  SetColumn(t, "Classificacao",
                  [i \in 1..Len(t.rows) |->
                     classify_journal(RowGet(t.rows[i], "Quartil_JCR"),
                                      RowGet(t.rows[i], "SJR_Quartil"))])

\* A plausible slip: only the JCR quartile is looked at.
load_data_body_jcr_only(src) ==
    LET t == read_excel(src)
    IN  IF "Classificacao" \notin t.cols
        THEN SetColumn(t, "Classificacao",
                       [i \in 1..Len(t.rows) |->
                          classify_journal(RowGet(t.rows[i], "Quartil_JCR"), None)])
        ELSE t

\* A plausible change: the columns are checked first, and nothing is
\* returned when there is no column to derive the tiers from.
load_data_body_schema_check(src) ==
    LET t == read_excel(src)
    IN  IF t.cols \cap {"Quartil_JCR", "SJR_Quartil", "Classificacao"} = {}
        THEN NoTable
        ELSE IF "Classificacao" \notin t.cols
        THEN SetColumn(t, "Classificacao",
                       [i \in 1..Len(t.rows) |->
                          classify_journal(RowGet(t.rows[i], "Quartil_JCR"),
                                           RowGet(t.rows[i], "SJR_Quartil"))])
        ELSE t

\* The body of load_data(), run on a cache miss.
load_data_body(src) ==
    LET t == read_excel(src)
    IN  IF "Classificacao" \notin t.cols
        THEN SetColumn(t, "Classificacao",
                       [i \in 1..Len(t.rows) |->
                          classify_journal(RowGet(t.rows[i], "Quartil_JCR"),
                                           RowGet(t.rows[i], "SJR_Quartil"))])
        ELSE t

(***************************************************************************)
(* The workbooks the model starts from.  Every one has the title column;   *)
(* each of the other four columns is there or not.  The quartile cells     *)
(* vary freely over their pools; the cells of the other columns follow     *)
(* from the row's position.                                                *)
(***************************************************************************)
OptionalCols == {"Quartil_JCR", "SJR_Quartil", "Classificacao", "Areas_SCI"}
QuartileCols == {"Quartil_JCR", "SJR_Quartil"}

CellPool(col) ==
    CASE col = "Quartil_JCR" -> {Blank, Str(<<"Q", "1">>), Str(<<" ", "q", "3">>)}
      [] col = "SJR_Quartil" -> {Blank, Str(<<"q", "2", " ">>), Str(<<"-">>)}

QuartileCells == UNION {CellPool(c) : c \in QuartileCols}

RowsOver(cols) ==
    {r \in [cols -> QuartileCells] : \A c \in cols : r[c] \in CellPool(c)}

Cycle(seq, i) == seq[((i - 1) % Len(seq)) + 1]

\* Row i's title is ab, bc, ca, ab, ...; its stored classification MB, A1,
\* MB, ...; its area a, empty, b, a, ...
PositionalCell(col, i) ==
    CASE col = "Titulo_SCImago" ->
            Str(<<Cycle(<<"a", "b", "c">>, i), Cycle(<<"a", "b", "c">>, i + 1)>>)
      [] col = "Classificacao" -> Cycle(<<MB, Str(<<"A", "1">>)>>, i)
      [] col = "Areas_SCI" -> Cycle(<<Str(<<"a">>), Blank, Str(<<"b">>)>>, i)

SourceOf(cols, n, body) ==
    [cols |-> cols \cup {"Titulo_SCImago"},
     rows |-> [i \in 1..n |->
                 [c \in cols \cup {"Titulo_SCImago"} |->
                    IF c \in QuartileCols THEN body[i][c] ELSE PositionalCell(c, i)]]]

(***************************************************************************)
(* 2.1 - 2.5. The script body.                                             *)
(***************************************************************************)
Column(t, col) == {t.rows[i][col] : i \in 1..Len(t.rows)}

classes_order == <<MB, B, R, F, SEM_CLASSIFICACAO_JCR_SJR>>

\* classes_avail (line 98), as a set: the order only places the options.
classes_avail(t) ==
    {classes_order[i] : i \in 1..Len(classes_order)} \cap Column(t, "Classificacao")

\* A plausible slip: the missing cells are not dropped before astype(str).
quartil_opts_keepna(t, col) == {PyStr(v) : v \in Column(t, col)}

\* jcr_opts / sjr_opts (lines 107-108): dropna().astype(str).unique()
quartil_opts(t, col) == {PyStr(v) : v \in Column(t, col) \ {NaN}}

\* areas_opts (line 125): dropna().unique()
areas_opts(t) == Column(t, "Areas_SCI") \ {NaN}

\* Lines 137-149, on a table that has both quartile columns.
apply_filters(t, csel, jsel, ssel, asel) ==
    LET byClass(r) == r["Classificacao"] \in csel
        byJcr(r) == PyStr(r["Quartil_JCR"]) \in jsel
        bySjr(r) == PyStr(r["SJR_Quartil"]) \in ssel
        byArea(r) == r["Areas_SCI"] \in asel
        t1 == IF csel # {} THEN [t EXCEPT !.rows = SelectSeq(t.rows, byClass)] ELSE t
        t2 == IF jsel # {} THEN [t1 EXCEPT !.rows = SelectSeq(t1.rows, byJcr)] ELSE t1
        t3 == IF ssel # {} THEN [t2 EXCEPT !.rows = SelectSeq(t2.rows, bySjr)] ELSE t2
    IN  IF "Areas_SCI" \in t.cols /\ asel # {}
        THEN [t3 EXCEPT !.rows = SelectSeq(t3.rows, byArea)]
        ELSE t3

\* A plausible slip: the filters rebind df itself instead of a copy.
df_after_filters_inplace(d, filtered) == filtered

\* Line 137 takes a copy, so the filters leave df as load_data() returned it.
df_after_filters(d, filtered) == d

Contains(s, t) == \E i \in 0..(Len(s) - Len(t)) : SubSeq(s, i + 1, i + Len(t)) = t

\* What the user may type in the search box.
Termos == {<<>>, <<" ", "A">>}

\* Lines 165-174.  The modelled workbooks carry the title text in each of the
\* three searched columns, so the three masks are one.
search(t, termo) ==
    LET termo_norm == Lower(Strip(termo))
        mask(r) == Contains(Lower(PyStr(r["Titulo_SCImago"])), termo_norm)
    IN  IF termo # <<>> THEN [t EXCEPT !.rows = SelectSeq(t.rows, mask)] ELSE t

\* The options of the two select boxes (lines 217-228).
jcr_manual_options == {<<>>, <<"Q", "1">>, <<"Q", "2">>, <<"Q", "3">>, <<"Q", "4">>}
sjr_manual_options == jcr_manual_options \cup {<<"-">>}

\* Lines 231-234, once the button is pressed.
manual_classe(jcr_manual, sjr_manual) ==
    LET jcr_val == IF jcr_manual # <<>> THEN Str(jcr_manual) ELSE None
        sjr_val == IF sjr_manual \notin {<<>>, <<"-">>} THEN Str(sjr_manual) ELSE None
    IN  classify_journal(jcr_val, sjr_val)

\* load_data() when st.cache_data holds no entry: the body runs, its result
\* is stored, and the caller gets a copy.
LoadDataMiss ==
    /\ pc = "start"
    /\ cache = NoEntry
    /\ cache' = load_data_body(source)
    /\ df' = cache'
    /\ first' = IF first = NoEntry THEN df' ELSE first
    /\ pc' = "loaded"
    /\ UNCHANGED <<call, ret, source, jcr_sel, sjr_sel, df_filt, df_view, classe>>

\* load_data() on a later run: a copy of the stored table.
LoadDataHit ==
    /\ pc = "start"
    /\ cache # NoEntry
    /\ df' = cache
    /\ pc' = "loaded_cached"
    /\ UNCHANGED <<call, ret, source, cache, first, jcr_sel, sjr_sel, df_filt,
                   df_view, classe>>

\* Lines 107-108 index df["Quartil_JCR"] and df["SJR_Quartil"]: KeyError
\* when the table has no such column, and the run ends there.
SidebarKeyError ==
    /\ pc \in {"loaded", "loaded_cached"}
    /\ ~({"Quartil_JCR", "SJR_Quartil"} \subseteq df.cols)
    /\ pc' = "crashed"
    /\ UNCHANGED <<call, ret, source, cache, df, first, jcr_sel, sjr_sel,
                   df_filt, df_view, classe>>

\* Lines 94-149: the sidebar's options, what the user has selected of them,
\* and the filters.
SidebarAndFilters ==
    /\ pc \in {"loaded", "loaded_cached"}
    /\ {"Quartil_JCR", "SJR_Quartil"} \subseteq df.cols
    /\ \E csel \in SUBSET classes_avail(df),
          jsel \in SUBSET quartil_opts(df, "Quartil_JCR"),
          ssel \in SUBSET quartil_opts(df, "SJR_Quartil"),
          asel \in (IF "Areas_SCI" \in df.cols THEN SUBSET areas_opts(df) ELSE {{}}) :
            /\ jcr_sel' = jsel
            /\ sjr_sel' = ssel
            /\ df_filt' = apply_filters(df, csel, jsel, ssel, asel)
            /\ df' = df_after_filters(df, df_filt')
    /\ pc' = "filtered"
    /\ UNCHANGED <<call, ret, source, cache, first, df_view, classe>>

\* Lines 154-190: the search box and the table shown.
Search ==
    /\ pc = "filtered"
    /\ \E termo \in Termos : df_view' = search(df_filt, termo)
    /\ pc' = "viewed"
    /\ UNCHANGED <<call, ret, source, cache, df, first, jcr_sel, sjr_sel,
                   df_filt, classe>>

\* Lines 212-235: the manual classifier; classe is bound only in a run the
\* button started.
ManualClassifier ==
    /\ pc = "viewed"
    /\ \/ classe' = Unset                                   \* button not pressed
       \/ classe' \in {manual_classe(jcr_manual, sjr_manual) :
                          jcr_manual \in jcr_manual_options,
                          sjr_manual \in sjr_manual_options}
    /\ pc' = "done"
    /\ UNCHANGED <<call, ret, source, cache, df, first, jcr_sel, sjr_sel,
                   df_filt, df_view>>

\* Any widget interaction starts the script over; only the cache outlives
\* the run.
Rerun ==
    /\ pc \in {"done", "crashed"}
    /\ pc' = "start"
    /\ df' = NoTable
    /\ df_filt' = NoTable
    /\ df_view' = NoTable
    /\ jcr_sel' = {}
    /\ sjr_sel' = {}
    /\ classe' = Unset
    /\ UNCHANGED <<call, ret, source, cache, first>>

(***************************************************************************)
(* Specifications.                                                         *)
(***************************************************************************)
AppIdle ==
    /\ cache = NoEntry
    /\ df = NoTable
    /\ first = NoEntry
    /\ jcr_sel = {}
    /\ sjr_sel = {}
    /\ df_filt = NoTable
    /\ df_view = NoTable
    /\ classe = Unset
    /\ pc = "start"

\* The app: a workbook on disk, an empty cache, the script about to run.
Init ==
    /\ call = NoCall
    /\ ret = Pending
    /\ \E cols \in SUBSET OptionalCols, n \in 0..MaxRows :
          \E body \in [1..n -> RowsOver(cols \cap QuartileCols)] :
            source = SourceOf(cols, n, body)
    /\ AppIdle

Next ==
    \/ LoadDataMiss
    \/ LoadDataHit
    \/ SidebarKeyError
    \/ SidebarAndFilters
    \/ Search
    \/ ManualClassifier
    \/ Rerun

Spec == Init /\ [][Next]_vars

\* The pure functions: one call, then its return.
InitFn ==
    /\ call \in Calls
    /\ ret = Pending
    /\ source = [cols |-> {}, rows |-> <<>>]
    /\ AppIdle

NextFn == ReturnMap \/ ReturnClassify

SpecFn == InitFn /\ [][NextFn]_vars

(***************************************************************************)
(* Properties.                                                             *)
(***************************************************************************)
Tiers == {MB, B, R, F}
FiveTokens == Tiers \cup {SEM_CLASSIFICACAO_JCR_SJR}

\* The order MB > B > R > F, with "no tier" last.
Rank(l) ==
    CASE l = MB -> 1
      [] l = B -> 2
      [] l = R -> 3
      [] l = F -> 4
      [] OTHER -> 5

\* The better of two levels, the unclassified token when there is neither.
BestOf(x, y) ==
    IF Rank(x) = 5 /\ Rank(y) = 5 THEN SEM_CLASSIFICACAO_JCR_SJR
    ELSE IF Rank(x) <= Rank(y) THEN x ELSE y

TierOfDigit(d) ==
    CASE d = "1" -> MB
      [] d = "2" -> B
      [] d = "3" -> R
      [] d = "4" -> F

\* s is Q or q followed by digit d, with nothing but whitespace around.
IsQuartileText(s, d) ==
    \E i \in 1..(Len(s) - 1) :
        /\ s[i] \in {"Q", "q"}
        /\ s[i + 1] = d
        /\ \A j \in (1..Len(s)) \ {i, i + 1} : s[j] \in Whitespace

Returned(fn) == call.fn = fn /\ ret # Pending
Loaded == pc \in {"loaded", "loaded_cached", "filtered", "viewed", "done", "crashed"}
Filtered == pc \in {"filtered", "viewed", "done"}
RowsOf(t) == {t.rows[i] : i \in 1..Len(t.rows)}

\* C1: classify_journal returns the better, in the order MB > B > R > F, of
\* the two levels map_quartil_to_level gives its arguments, whichever argument
\* it came from, and the unclassified token exactly when both are None.
C1_BestOfTwo ==
    Returned("classify_journal") =>
        LET x == map_quartil_to_level(call.args[1])
            y == map_quartil_to_level(call.args[2])
        IN  /\ ret = BestOf(x, y)
            /\ (ret = SEM_CLASSIFICACAO_JCR_SJR) <=> (x = None /\ y = None)

\* The SJR argument alone gives the better level, through case and padding.
C1_Witness ==
    /\ Returned("classify_journal")
    /\ call.args = <<Str(<<"Q", "3">>), Str(<<" ", "q", "1", " ">>)>>
    /\ ret = MB

\* C2: map_quartil_to_level returns MB, B, R, F for Q1, Q2, Q3, Q4 in either
\* case with any whitespace around, None for every other input, and a value
\* for every input.
C2_MapQuartil ==
    Returned("map_quartil_to_level") =>
        LET q == call.args[1]
        IN  /\ ret \in Tiers \cup {None}
            /\ \A d \in {"1", "2", "3", "4"} :
                 (ret = TierOfDigit(d)) <=> (q.kind = "str" /\ IsQuartileText(q.val, d))

C2_Witness ==
    /\ Returned("map_quartil_to_level")
    /\ call.args[1] = Str(<<" ", "q", "4", " ">>)
    /\ ret = F

\* C3: classify_journal gives the same result with its arguments swapped.
C3_Commutative ==
    Returned("classify_journal") =>
        ret = classify_journal(call.args[2], call.args[1])

C3_Witness ==
    /\ Returned("classify_journal")
    /\ call.args = <<Str(<<"Q", "4">>), Str(<<"Q", "2">>)>>
    /\ ret = B

\* The tier the two quartile cells of row r imply.
ImpliedTier(r) ==
    BestOf(map_quartil_to_level(RowGet(r, "Quartil_JCR")),
           map_quartil_to_level(RowGet(r, "SJR_Quartil")))

\* C4, as stated: in every table load_data returns, each row's tier is the best
\* of the two tiers its quartile cells imply.
C4_Original ==
    Loaded => \A r \in RowsOf(df) : r["Classificacao"] = ImpliedTier(r)

\* C4, amended: that holds of the tables load_data returns for a workbook
\* that has no 'Classificação' column.
C4_Amended ==
    (Loaded /\ "Classificacao" \notin source.cols) =>
        \A r \in RowsOf(df) :
            /\ r["Classificacao"] = ImpliedTier(r)
            /\ (r["Classificacao"] = SEM_CLASSIFICACAO_JCR_SJR) <=>
                  /\ map_quartil_to_level(RowGet(r, "Quartil_JCR")) = None
                  /\ map_quartil_to_level(RowGet(r, "SJR_Quartil")) = None

\* A computed tier that the SJR cell decides against a worse JCR cell.
C4_Witness ==
    /\ Loaded
    /\ "Classificacao" \notin source.cols
    /\ \E r \in RowsOf(df) :
         /\ r["Classificacao"] = B
         /\ RowGet(r, "Quartil_JCR") = Str(<<" ", "q", "3">>)

\* C5: for a workbook without a 'Classificação' column, load_data returns
\* the workbook's rows and columns as read, plus the column, each row's tier
\* being classify_journal of its two quartile cells (None for a missing one).
C5_Backfill ==
    (Loaded /\ "Classificacao" \notin source.cols) =>
        /\ df.cols = source.cols \cup {"Classificacao"}
        /\ Len(df.rows) = Len(source.rows)
        /\ \A i \in 1..Len(df.rows) :
             /\ \A c \in source.cols : df.rows[i][c] = ReadCell(source.rows[i][c])
             /\ df.rows[i]["Classificacao"] =
                   classify_journal(
                       IF "Quartil_JCR" \in source.cols
                       THEN ReadCell(source.rows[i]["Quartil_JCR"]) ELSE None,
                       IF "SJR_Quartil" \in source.cols
                       THEN ReadCell(source.rows[i]["SJR_Quartil"]) ELSE None)

\* A full workbook with one quartile column missing.
C5_Witness ==
    /\ Loaded
    /\ "Classificacao" \notin source.cols
    /\ "Quartil_JCR" \notin source.cols
    /\ "SJR_Quartil" \in source.cols
    /\ Len(df.rows) = MaxRows
    /\ \E r \in RowsOf(df) : r["Classificacao"] = B

\* C6: for a workbook that has a 'Classificação' column, load_data returns
\* that column as it was read, whatever the quartile cells imply.
C6_Verbatim ==
    (Loaded /\ "Classificacao" \in source.cols) =>
        /\ df = read_excel(source)
        /\ \A i \in 1..Len(source.rows) :
             df.rows[i]["Classificacao"] = ReadCell(source.rows[i]["Classificacao"])

\* A stored MB on a row whose quartiles imply another tier.
C6_Witness ==
    /\ Loaded
    /\ "Classificacao" \in source.cols
    /\ \E r \in RowsOf(df) :
         /\ r["Classificacao"] = MB
         /\ ImpliedTier(r) = R

NoTierSource == source.cols \cap {"Quartil_JCR", "SJR_Quartil", "Classificacao"} = {}

C8_Original ==
    /\ classe # Unset => classe \in FiveTokens
    /\ Loaded => \A r \in RowsOf(df) : r["Classificacao"] \in FiveTokens

\* C8, amended: every tier classify_journal returns is one of the five tokens,
\* and so is every tier of a table loaded from a workbook that has no
\* 'Classificação' column.
C8_Amended ==
    /\ classe # Unset => classe \in FiveTokens
    /\ (Loaded /\ "Classificacao" \notin source.cols) =>
          \A r \in RowsOf(df) : r["Classificacao"] \in FiveTokens

C8_Witness ==
    /\ pc = "done"
    /\ classe = SEM_CLASSIFICACAO_JCR_SJR
    /\ "Classificacao" \notin source.cols
    /\ \E r \in RowsOf(df) : r["Classificacao"] = SEM_CLASSIFICACAO_JCR_SJR
    /\ \E r \in RowsOf(df) : r["Classificacao"] = MB

\* C9: every load_data call of a session returns the table the first call
\* returned, row for row, and no later step of the script (filters, search,
\* manual classifier) changes it or the tier of a row it shows.
C9_SameTable ==
    /\ cache # NoEntry => cache = first
    /\ Loaded => df = first
    /\ Filtered => RowsOf(df_filt) \subseteq RowsOf(first)
    /\ pc \in {"viewed", "done"} => RowsOf(df_view) \subseteq RowsOf(first)

\* A second load_data call, served after a run that filtered the table.
C9_Witness ==
    /\ pc = "loaded_cached"
    /\ df = first
    /\ Len(df.rows) = MaxRows
    /\ "Classificacao" \notin source.cols

\* C10: after the filters, a non-empty 'Quartil JCR' selection leaves no row
\* whose Quartil_JCR is missing, and likewise for SJR_Quartil; so a row with
\* a missing quartile is kept only under an empty selection for that source.
C10_MissingExcluded ==
    Filtered =>
        /\ jcr_sel # {} => \A r \in RowsOf(df_filt) : r["Quartil_JCR"] # NaN
        /\ sjr_sel # {} => \A r \in RowsOf(df_filt) : r["SJR_Quartil"] # NaN
        /\ \A r \in RowsOf(df_filt) :
             /\ r["Quartil_JCR"] = NaN => jcr_sel = {}
             /\ r["SJR_Quartil"] = NaN => sjr_sel = {}

\* Every JCR option selected: the row rated by SJR alone is dropped, the
\* other row stays.
C10_Witness ==
    /\ pc = "filtered"
    /\ jcr_sel = quartil_opts(df, "Quartil_JCR")
    /\ jcr_sel # {}
    /\ sjr_sel = {}
    /\ \E r \in RowsOf(df) \ RowsOf(df_filt) :
         r["Quartil_JCR"] = NaN /\ r["SJR_Quartil"] # NaN
    /\ df_filt.rows # <<>>

=============================================================================
